---- MODULE Spec2Model ----
(***************************************************************************)
(* rsnake: the game state of src/main.rs (Vector, Dimensions, Direction,   *)
(* Game) and the main loop that drives it: go_forward, the food spawn and  *)
(* the key handling, one loop iteration after the other.                   *)
(*                                                                         *)
(* A Vector is the pair <<x, y>>, the body is a sequence whose first       *)
(* element is the front of the LinkedList, and Option::None is None.       *)
(***************************************************************************)
EXTENDS Integers, Sequences, FiniteSets, TLC

\* ----- bounds of the model ------------------------------------------------
\* number of loop iterations explored
MaxTicks == 6
\* largest coordinate of the small grids the move operations are tried on
MaxCoord == 2
\* number of consecutive move operations applied to one Vector
MaxOps == 2

\* ----- program constants --------------------------------------------------
\* u16 arithmetic
U16 == 65536

None == <<>>

Directions == {"Left", "Up", "Right", "Down"}

\* the key events the match in main tells apart; "NoEvent" is a poll that
\* timed out (or an event that is not a key), "Other" any other key
Keys == {"Up", "Down", "Left", "Right", "q", "ctrl_c", "ctrl_d", "Other", "NoEvent"}

\* Dimensions of the Game built in main
GameDimensions == [x |-> <<1, 20>>, y |-> <<1, 10>>]

InitBody == << <<5, 5>> >>

InitDirection == "Right"

VARIABLES
    body,        \* Game.body, front first
    direction,   \* Game.direction
    dimensions,  \* Game.dimensions
    block,       \* Game.block, None or a Vector
    pc,          \* position of main in its loop
    key,         \* the key event read in the current iteration
    ticks,       \* iterations started so far
    collided,    \* history: some go_forward stepped onto a body cell
    gv,          \* a Vector the move operations are applied to
    gdim,        \* the Dimensions they are applied with
    gtrace,      \* history: the values of gv, oldest first
    gops         \* history: the operations applied, oldest first

vars == <<body, direction, dimensions, block, pc, key, ticks, collided,
          gv, gdim, gtrace, gops>>

gameVars == <<body, direction, dimensions, block, pc, key, ticks, collided>>

geoVars == <<gv, gdim, gtrace, gops>>

\* ----- Vector --------------------------------------------------------------
\* move_left that stops at the lower bound instead of wrapping
move_left_clamp(v, d) ==
    IF v[1] > d.x[1] THEN <<(v[1] + U16 - 1) % U16, v[2]>>
    ELSE <<d.x[1], v[2]>>

move_left(v, d) ==
    IF v[1] > d.x[1] THEN <<(v[1] + U16 - 1) % U16, v[2]>>
    ELSE <<d.x[2], v[2]>>

\* move_right that steps past the upper bound before wrapping
move_right_late(v, d) ==
    IF v[1] <= d.x[2] THEN <<(v[1] + 1) % U16, v[2]>>
    ELSE <<d.x[1], v[2]>>

move_right(v, d) ==
    IF v[1] < d.x[2] THEN <<(v[1] + 1) % U16, v[2]>>
    ELSE <<d.x[1], v[2]>>

\* move_up that always subtracts, without the wrap at the lower bound
move_up_nowrap(v, d) == <<v[1], (v[2] + U16 - 1) % U16>>

move_up(v, d) ==
    IF v[2] > d.y[1] THEN <<v[1], (v[2] + U16 - 1) % U16>>
    ELSE <<v[1], d.y[2]>>

move_down(v, d) ==
    IF v[2] < d.y[2] THEN <<v[1], (v[2] + 1) % U16>>
    ELSE <<v[1], d.y[1]>>

\* ----- Game ----------------------------------------------------------------
\* the new_head go_forward computes from the front of the body
new_head(head, dir, d) ==
    CASE dir = "Right" -> move_right(head, d)
      [] dir = "Left" -> move_left(head, d)
      [] dir = "Up" -> move_up(head, d)
      [] dir = "Down" -> move_down(head, d)

\* the flag with its sense inverted: pop only when the block is eaten
pop_back_inverted(blk, nh) == blk # None /\ blk = nh

\* the pop_back flag of go_forward
pop_back(blk, nh) == ~(blk # None /\ blk = nh)

\* go_forward that clears the block whenever one is present
go_forward_block_clear(b, dir, d, blk) ==
    IF b = <<>> THEN blk
    ELSE None

\* Game.block after go_forward
go_forward_block(b, dir, d, blk) ==
    IF b = <<>> THEN blk
    ELSE IF pop_back(blk, new_head(Head(b), dir, d)) THEN blk ELSE None

\* go_forward that pushes the new head only when the block is eaten
go_forward_body_nopush(b, dir, d, blk) ==
    IF b = <<>> THEN b
    ELSE LET nh == new_head(Head(b), dir, d)
         IN IF pop_back(blk, nh) THEN SubSeq(b, 1, Len(b) - 1)
            ELSE <<nh>> \o b

\* go_forward that pops the back whatever the flag says
go_forward_body_alwayspop(b, dir, d, blk) ==
    IF b = <<>> THEN b
    ELSE LET pushed == <<new_head(Head(b), dir, d)>> \o b
         IN SubSeq(pushed, 1, Len(pushed) - 1)

\* go_forward that never pops the back
go_forward_body_neverpop(b, dir, d, blk) ==
    IF b = <<>> THEN b
    ELSE <<new_head(Head(b), dir, d)>> \o b

\* go_forward that adds the new head with push_back
go_forward_body_pushback(b, dir, d, blk) ==
    IF b = <<>> THEN b
    ELSE LET nh == new_head(Head(b), dir, d)
             pushed == b \o <<nh>>
         IN IF pop_back(blk, nh) THEN SubSeq(pushed, 1, Len(pushed) - 1)
            ELSE pushed

\* Game.body after go_forward: push_front, then pop_back if the flag is set
go_forward_body(b, dir, d, blk) ==
    IF b = <<>> THEN b
    ELSE LET nh == new_head(Head(b), dir, d)
             pushed == <<nh>> \o b
         IN IF pop_back(blk, nh) THEN SubSeq(pushed, 1, Len(pushed) - 1)
            ELSE pushed

\* ----- main ----------------------------------------------------------------
\* gen_range over the inclusive ranges lo..=hi
spawn_range_inclusive(d) ==
    {<<x, y>> : x \in d.x[1] .. d.x[2], y \in d.y[1] .. d.y[2]}

\* draws that are re-rolled until they miss the body
spawn_range_free(d) ==
    {p \in {<<x, y>> : x \in d.x[1] .. (d.x[2] - 1), y \in d.y[1] .. (d.y[2] - 1)} :
        \A i \in 1 .. Len(body) : body[i] # p}

\* the values rng.gen_range draws for a new block
spawn_range(d) ==
    {<<x, y>> : x \in d.x[1] .. (d.x[2] - 1), y \in d.y[1] .. (d.y[2] - 1)}

\* the keys that break the loop
is_quit(k) == k \in {"q", "ctrl_c", "ctrl_d"}

\* the match without its guards on the current direction
handle_key_unguarded(dir, k) ==
    CASE k = "Up" -> "Up"
      [] k = "Down" -> "Down"
      [] k = "Left" -> "Left"
      [] k = "Right" -> "Right"
      [] OTHER -> dir

\* the match with the Left arm guarded against Left instead of Right
handle_key_wrongguard(dir, k) ==
    CASE k = "Up" /\ dir # "Down" -> "Up"
      [] k = "Down" /\ dir # "Up" -> "Down"
      [] k = "Left" /\ dir # "Left" -> "Left"
      [] k = "Right" /\ dir # "Left" -> "Right"
      [] OTHER -> dir

\* Game.direction after the match on the key event
handle_key(dir, k) ==
    CASE k = "Up" /\ dir # "Down" -> "Up"
      [] k = "Down" /\ dir # "Up" -> "Down"
      [] k = "Left" /\ dir # "Right" -> "Left"
      [] k = "Right" /\ dir # "Left" -> "Right"
      [] OTHER -> dir

Init ==
    /\ body = InitBody
    /\ dimensions = GameDimensions
    /\ direction = InitDirection
    /\ block = None
    /\ pc = "go_forward"
    /\ key = "NoEvent"
    /\ ticks = 0
    /\ collided = FALSE
    /\ gv = <<5, 5>>
    /\ gdim = GameDimensions
    /\ gtrace = << <<5, 5>> >>
    /\ gops = <<>>

\* game.go_forward() of one loop iteration
go_forward ==
    /\ pc = "go_forward"
    /\ ticks < MaxTicks
    /\ body' = go_forward_body(body, direction, dimensions, block)
    /\ block' = go_forward_block(body, direction, dimensions, block)
    /\ collided' = (collided \/
           (body # <<>> /\
            \E i \in 1 .. Len(body) :
                body[i] = new_head(Head(body), direction, dimensions)))
    /\ ticks' = ticks + 1
    /\ key' = "NoEvent"
    /\ pc' = "spawn"
    /\ UNCHANGED <<direction, dimensions>>
    /\ UNCHANGED geoVars

\* the spawn step with its test inverted (is_some for is_none)
spawn_inverted ==
    /\ pc = "spawn"
    /\ IF block # None
       THEN \E p \in spawn_range(dimensions) : block' = p
       ELSE block' = block
    /\ pc' = "poll"
    /\ UNCHANGED <<body, direction, dimensions, key, ticks, collided>>
    /\ UNCHANGED geoVars

\* if game.block.is_none() { game.block = Some(random Vector) }
spawn ==
    /\ pc = "spawn"
    /\ IF block = None
       THEN \E p \in spawn_range(dimensions) : block' = p
       ELSE block' = block
    /\ pc' = "poll"
    /\ UNCHANGED <<body, direction, dimensions, key, ticks, collided>>
    /\ UNCHANGED geoVars

\* event::poll / event::read and the match on the key
input ==
    /\ pc = "poll"
    /\ \E k \in Keys :
        /\ key' = k
        /\ IF is_quit(k)
           THEN /\ pc' = "done"
                /\ direction' = direction
           ELSE /\ pc' = "go_forward"
                /\ direction' = handle_key(direction, k)
    /\ UNCHANGED <<body, dimensions, block, ticks, collided>>
    /\ UNCHANGED geoVars

Next == go_forward \/ spawn \/ input

Spec == Init /\ [][Next]_vars

\* ----- the move operations on their own ------------------------------------
\* coordinates at both ends of u16
GeoVals == (0 .. MaxCoord) \cup ((U16 - 1 - MaxCoord) .. (U16 - 1))

\* bound pairs (lo, hi) with lo < hi, at one end of u16 or the game's own
GeoRanges ==
    {r \in (GeoVals \X GeoVals) : r[1] < r[2] /\ r[2] - r[1] <= MaxCoord}
    \cup {GameDimensions.x, GameDimensions.y}

GeoDims == {[x |-> rx, y |-> ry] : rx \in GeoRanges, ry \in GeoRanges}

GeoInit ==
    /\ body = InitBody
    /\ dimensions = GameDimensions
    /\ direction = InitDirection
    /\ block = None
    /\ pc = "go_forward"
    /\ key = "NoEvent"
    /\ ticks = 0
    /\ collided = FALSE
    /\ gdim \in GeoDims
    /\ gv \in {<<x, y>> : x \in gdim.x[1] .. gdim.x[2], y \in gdim.y[1] .. gdim.y[2]}
    /\ gtrace = <<gv>>
    /\ gops = <<>>

apply_move_left ==
    /\ Len(gops) < MaxOps
    /\ gv' = move_left(gv, gdim)
    /\ gtrace' = Append(gtrace, gv')
    /\ gops' = Append(gops, "move_left")
    /\ UNCHANGED gdim
    /\ UNCHANGED gameVars

apply_move_right ==
    /\ Len(gops) < MaxOps
    /\ gv' = move_right(gv, gdim)
    /\ gtrace' = Append(gtrace, gv')
    /\ gops' = Append(gops, "move_right")
    /\ UNCHANGED gdim
    /\ UNCHANGED gameVars

apply_move_up ==
    /\ Len(gops) < MaxOps
    /\ gv' = move_up(gv, gdim)
    /\ gtrace' = Append(gtrace, gv')
    /\ gops' = Append(gops, "move_up")
    /\ UNCHANGED gdim
    /\ UNCHANGED gameVars

apply_move_down ==
    /\ Len(gops) < MaxOps
    /\ gv' = move_down(gv, gdim)
    /\ gtrace' = Append(gtrace, gv')
    /\ gops' = Append(gops, "move_down")
    /\ UNCHANGED gdim
    /\ UNCHANGED gameVars

GeoNext == apply_move_left \/ apply_move_right \/ apply_move_up \/ apply_move_down

GeoSpec == GeoInit /\ [][GeoNext]_vars

\* ----- go_forward on its own -------------------------------------------------
\* Game::go_forward called on the Game values its fields admit: the body is
\* a LinkedList that may be empty, the block any Option<Vector> in the grid
GoForwardInit ==
    /\ body \in {<<>>, InitBody}
    /\ dimensions = GameDimensions
    /\ direction \in Directions
    /\ block \in {None} \cup spawn_range(GameDimensions)
    /\ pc = "go_forward"
    /\ key = "NoEvent"
    /\ ticks = 0
    /\ collided = FALSE
    /\ gv = <<5, 5>>
    /\ gdim = GameDimensions
    /\ gtrace = << <<5, 5>> >>
    /\ gops = <<>>

GoForwardNext == go_forward

GoForwardSpec == GoForwardInit /\ [][GoForwardNext]_vars

\* ----- properties ----------------------------------------------------------
Range(s) == {s[i] : i \in 1 .. Len(s)}

\* the new head the next go_forward computes
NextHead == new_head(Head(body), direction, dimensions)

Opposite(dir) ==
    CASE dir = "Left" -> "Right"
      [] dir = "Right" -> "Left"
      [] dir = "Up" -> "Down"
      [] dir = "Down" -> "Up"

ArrowKeys == {"Up", "Down", "Left", "Right"}

\* C1: a go_forward whose new head is a member of the body before it ends
\* the game and leaves body and block as they were.
C1_SelfCollisionGameOver ==
    [][(pc = "go_forward" /\ body # <<>> /\ NextHead \in Range(body))
        => (pc' = "done" /\ body' = body /\ block' = block)]_vars

\* C2: the elements of the body are pairwise distinct in every state.
C2_BodyDistinct ==
    \A i \in 1 .. Len(body) : \A j \in 1 .. Len(body) :
        i # j => body[i] # body[j]

\* C3: once a go_forward has stepped onto a cell of the body the loop has
\* stopped: no go_forward follows and body and block stay as they are.
C3_GameOverTerminal ==
    [][(collided /\ pc = "go_forward")
        => (body' = body /\ block' = block)]_vars

\* C4: the body is never empty.
C4_BodyNonEmpty == Len(body) >= 1

\* C4 witness: the body has grown and has then moved on without growing
C4_Witness ==
    /\ pc = "spawn"
    /\ Len(body) >= 2
    /\ block # None
    /\ ticks >= 3

\* C5: the key handling never turns the direction into its opposite, leaves
\* it unchanged on a request for the opposite, and takes every other arrow.
C5_NoReversal ==
    [][pc = "poll" =>
        /\ direction' # Opposite(direction)
        /\ (key' \in ArrowKeys /\ key' = Opposite(direction)
                => direction' = direction)
        /\ (key' \in ArrowKeys /\ key' # Opposite(direction)
                => direction' = key')]_vars

\* C5 witness: the last go_forward went Right and the key Up was then taken
C5_Witness ==
    /\ pc = "go_forward"
    /\ Len(body) >= 2
    /\ body[1] = move_right(body[2], dimensions)
    /\ key = "Up"
    /\ direction = "Up"

\* C6: a go_forward whose new head is the block pushes the new head in front
\* of the whole body (length plus one) and leaves the block absent.
C6_Growth ==
    [][(pc = "go_forward" /\ body # <<>> /\ block # None /\ NextHead = block)
        => /\ body' = <<block>> \o body
           /\ Len(body') = Len(body) + 1
           /\ block' = None]_vars

\* C6 witness: a go_forward has just eaten the block
C6_Witness ==
    /\ pc = "spawn"
    /\ block = None
    /\ Len(body) >= 3

\* C7: a go_forward that neither eats the block nor steps onto the body
\* keeps the length: new head in front, the previous back removed.
C7_Translation ==
    [][(pc = "go_forward" /\ body # <<>> /\ NextHead # block
            /\ NextHead \notin Range(body))
        => /\ Len(body') = Len(body)
           /\ body' = <<NextHead>> \o SubSeq(body, 1, Len(body) - 1)]_vars

\* C7 witness: a body of three segments has just moved without eating
C7_Witness ==
    /\ pc = "spawn"
    /\ block # None
    /\ Len(body) = 3
    /\ ticks >= 4
    /\ \A i \in 1 .. 3 : \A j \in 1 .. 3 : i # j => body[i] # body[j]

InverseOps ==
    {<<"move_left", "move_right">>, <<"move_right", "move_left">>,
     <<"move_up", "move_down">>, <<"move_down", "move_up">>}

\* C8: a move followed by the opposite move gives back the Vector it
\* started from, for every range lo < hi and every start inside it.
C8_RoundTrip ==
    \A i \in 1 .. Len(gops) - 1 :
        <<gops[i], gops[i + 1]>> \in InverseOps => gtrace[i + 2] = gtrace[i]

\* C8 witness: move_left wrapped from the lower bound and move_right came back
C8_Witness ==
    /\ Len(gops) >= 2
    /\ gops[1] = "move_left"
    /\ gops[2] = "move_right"
    /\ gtrace[1][1] = gdim.x[1]
    /\ gtrace[2][1] = gdim.x[2]
    /\ gtrace[3] = gtrace[1]

Decrement(v, lo, hi) == IF v > lo THEN v - 1 ELSE hi

Increment(v, lo, hi) == IF v < hi THEN v + 1 ELSE lo

Reference(op, v, d) ==
    CASE op = "move_left" -> <<Decrement(v[1], d.x[1], d.x[2]), v[2]>>
      [] op = "move_right" -> <<Increment(v[1], d.x[1], d.x[2]), v[2]>>
      [] op = "move_up" -> <<v[1], Decrement(v[2], d.y[1], d.y[2])>>
      [] op = "move_down" -> <<v[1], Increment(v[2], d.y[1], d.y[2])>>

\* C9: each move gives the reference wrap on its own axis and keeps the
\* other axis; x = 20 with x range (1, 20) moving right gives x = 1.
C9_MoveIsReference ==
    /\ \A i \in 1 .. Len(gops) :
           gtrace[i + 1] = Reference(gops[i], gtrace[i], gdim)
    /\ \A i \in 1 .. Len(gops) :
           (gdim.x = <<1, 20>> /\ gops[i] = "move_right" /\ gtrace[i][1] = 20)
               => gtrace[i + 1][1] = 1

\* C9 witness: move_right applied at x = 20 of the game's own dimensions
C9_Witness ==
    /\ gdim = GameDimensions
    /\ Len(gops) >= 1
    /\ gops[1] = "move_right"
    /\ gtrace[1][1] = 20
    /\ gtrace[2][1] = 1

InSpawnRange(p, d) ==
    /\ d.x[1] <= p[1] /\ p[1] < d.x[2]
    /\ d.y[1] <= p[2] /\ p[2] < d.y[2]

\* C10: a block is placed only at the spawn step and only when the block is
\* absent, inside [x.lo, x.hi) and [y.lo, y.hi); so a present block always
\* has x in 1..19 and y in 1..9.
C10_SpawnRange ==
    /\ [](block # None =>
            block[1] \in 1 .. 19 /\ block[2] \in 1 .. 9)
    /\ [][(block' # None /\ block' # block)
            => (pc = "spawn" /\ block = None
                /\ InSpawnRange(block', dimensions))]_vars

\* C10 witness: the block was placed on the last column and row of the range
C10_Witness ==
    /\ pc = "poll"
    /\ block = <<19, 9>>

\* C11: the block is placed again in the iteration that finds it absent: it
\* is present after every spawn step, so every go_forward but the first
\* starts with a block; the first iteration gives body [(6,5)] and a block.
C11_BlockPresentAfterSpawn ==
    /\ (pc \in {"poll", "done"} => block # None)
    /\ ((pc = "go_forward" /\ ticks >= 1) => block # None)
    /\ ((pc = "poll" /\ ticks = 1) => body = << <<6, 5>> >>)

\* C11 witness: the block was eaten on ticks 2 and 3 and is present again
C11_Witness ==
    /\ pc = "poll"
    /\ ticks = 3
    /\ Len(body) = 3
    /\ block # None

\* C12: with two or more segments, the new head the next go_forward computes
\* is never the segment right behind the head.
C12_NoStepBack ==
    Len(body) >= 2 => NextHead # body[2]

\* C12 witness: the snake went Right, a Left key was refused, next tick due
C12_Witness ==
    /\ pc = "go_forward"
    /\ Len(body) >= 2
    /\ key = "Left"
    /\ direction = "Right"
    /\ body[1] = move_right(body[2], dimensions)

\* C13: go_forward changes neither direction nor dimensions, and leaves the
\* block alone unless the new head is on it; the direction changes only in
\* the key handling, and only to an arrow key that is not its opposite.
C13_Frame ==
    [][/\ (pc = "go_forward" =>
             /\ direction' = direction
             /\ dimensions' = dimensions
             /\ (NextHead # block => block' = block))
       /\ (direction' # direction =>
             /\ pc = "poll"
             /\ key' \in ArrowKeys
             /\ key' # Opposite(direction)
             /\ direction' = key')
       /\ ((pc = "poll" /\ key' \notin ArrowKeys) => direction' = direction)
      ]_vars

\* C13 witness: a go_forward heading Left has just left the block in place
C13_Witness ==
    /\ pc = "spawn"
    /\ Len(body) >= 2
    /\ direction = "Left"
    /\ block # None
    /\ block # body[1]
    /\ body[1] = move_left(body[2], dimensions)

\* C14: the spawn step does not look at the body: whenever it has a block to
\* place, every body cell inside the draw range is a possible outcome.
C14_SpawnIgnoresBody ==
    (pc = "spawn" /\ block = None) =>
        \A p \in Range(body) :
            InSpawnRange(p, dimensions) => ENABLED (spawn /\ block' = p)

\* C14 witness: the block has been placed on a segment of the body
C14_Witness ==
    /\ pc = "poll"
    /\ Len(body) >= 2
    /\ block \in Range(body)

\* C15: a go_forward called on an empty body fails with an error instead of
\* completing as a normal tick (control never reaches the spawn step), and
\* leaves body and block as they were.
C15_EmptyBodyError ==
    [][(pc = "go_forward" /\ body = <<>>)
        => (pc' # "spawn" /\ body' = body /\ block' = block)]_vars

InBounds(p, d) ==
    /\ d.x[1] <= p[1] /\ p[1] <= d.x[2]
    /\ d.y[1] <= p[2] /\ p[2] <= d.y[2]

\* C16: every segment of the body has 1 <= x <= 20 and 1 <= y <= 10; and
\* from every cell of the grid each of the four steps stays in the grid, so
\* this carries over to every later tick.
C16_BodyInBounds ==
    /\ \A i \in 1 .. Len(body) :
           /\ InBounds(body[i], dimensions)
           /\ body[i][1] \in 1 .. 20
           /\ body[i][2] \in 1 .. 10
    /\ (ticks = 0 =>
           \A x \in dimensions.x[1] .. dimensions.x[2] :
           \A y \in dimensions.y[1] .. dimensions.y[2] :
           \A dir \in Directions :
               InBounds(new_head(<<x, y>>, dir, dimensions), dimensions))

\* C16 witness: the head went Up from y = 1 and is now on y = 10
C16_Witness ==
    /\ pc = "spawn"
    /\ Len(body) >= 2
    /\ direction = "Up"
    /\ body[2][2] = 1
    /\ body[1][2] = 10

\* C17: the length of the body never decreases, grows by at most one in a
\* step, and grows exactly in a go_forward whose new head is on the block.
C17_Score ==
    [][/\ Len(body') >= Len(body)
       /\ Len(body') <= Len(body) + 1
       /\ (Len(body') = Len(body) + 1
             <=> (pc = "go_forward" /\ block # None /\ NextHead = block))
      ]_vars

\* C17 witness: the score stayed 1 for three ticks and became 2 on the fourth
C17_Witness ==
    /\ pc = "spawn"
    /\ ticks = 4
    /\ Len(body) = 2
    /\ block = None

\* C18: each segment is one wrap step Left, Right, Up or Down away from the
\* segment behind it: one axis equal, the other one step apart on the torus.
C18_Contiguous ==
    \A i \in 1 .. Len(body) - 1 :
        /\ \E op \in {"move_left", "move_right", "move_up", "move_down"} :
               body[i] = Reference(op, body[i + 1], dimensions)
        /\ (body[i][1] = body[i + 1][1]) # (body[i][2] = body[i + 1][2])

\* C18 witness: a body of four segments whose head wrapped over the top
C18_Witness ==
    /\ Len(body) >= 4
    /\ body[1][2] = 10
    /\ body[2][2] = 1
    /\ body[3][2] = 2

====
